---- MODULE Spec2Model ----
(***************************************************************************)
(* A model of SQLAir (src/sqlair/SQLAir.cpp): a CSV-backed store queried   *)
(* over HTTP.  The module holds three specifications over one state:       *)
(*   SpecServer   runServer's admission loop and the clientThread workers, *)
(*                with process() summarised by its outcomes;               *)
(*   SpecQuery    the workers' select/update/insert/delete on one table,   *)
(*                step by step, with the row locks and the table's         *)
(*                condition variable;                                      *)
(*   SpecRegistry loadAndGet's two critical sections around the load.      *)
(***************************************************************************)
EXTENDS Integers, Sequences, FiniteSets, TLC

(* ------------------------------ bounds -------------------------------- *)
\* connections the acceptor takes in SpecServer
MaxConn == 2
\* maxThr is drawn from 1..MaxThrArg
MaxThrArg == 2

Conns == 1 .. MaxConn

(* ------------------------------ state --------------------------------- *)
VARIABLES
    \* SQLAir::runServer and the admission counter
    maxThr,       \* runServer's argument
    numThreads,   \* std::atomic<int> numThreads
    thrMutex,     \* holder of thrMutex: "free" or "server"
    srvPc,        \* the acceptor's position in runServer
    conns,        \* connections accepted so far
    crashed,      \* the process died (undefined behaviour took the crash outcome)
    \* SQLAir::clientThread, one per connection
    pc,           \* each worker's position
    sql,          \* the statement of the request ("" for the empty query)
    os,           \* std::ostringstream os: the lines written so far
    exc,          \* the exception in flight, "none" when there is none
    resp,         \* the response bodies written to the client
    subs          \* how many times the worker ran numThreads.fetch_sub

VARIABLES
    \* the table (class CSV, a vector of CSVRow) the queries run on
    csv,          \* the row sequence
    rowMutex,     \* CSVRow::rowMutex of each row: 0 when free, else its holder
    cap,          \* the vector's capacity
    csvMutex,     \* CSV::csvMutex: 0 when free, else its holder
    qry,          \* each worker's parsed statement
    loc,          \* each worker's locals in the query methods
    \* history, kept for the properties only
    hist          \* per worker: what happened since its latest scan began

VARIABLES
    \* SQLAir::loadAndGet
    inMemoryCSV,     \* identifier -> the table stored for it, or NoCSV
    recentCSV,       \* the most recently used identifier
    recentCSVMutex,  \* 0 when free, else its holder
    ld,              \* each worker's locals in loadAndGet
    ioLoads,         \* identifier -> loads that succeeded
    replaced         \* identifier -> stored tables a later load overwrote

srvVars == <<maxThr, numThreads, thrMutex, srvPc, conns, crashed>>
cliVars == <<pc, sql, os, exc, resp, subs>>
tblVars == <<csv, rowMutex, cap, csvMutex>>
qryVars == <<tblVars, qry, loc, hist>>
regVars == <<inMemoryCSV, recentCSV, recentCSVMutex, ld, ioLoads, replaced>>
vars == <<srvVars, cliVars, qryVars, regVars>>

(* --------------------------- output lines ----------------------------- *)
Failures ==
    {"NoTableSelected", "LoadFailure", "ColumnNotFound", "SaveUnsupported",
     "NetworkFailure", "MalformedStatement"}

Line(kind, cells, n) == [kind |-> kind, cells |-> cells, n |-> n]
\* os << "Error: " << exp.what() << std::endl
ErrorLine(what) == Line("Error: ", <<what>>, 0)
HeaderLine(cols) == Line("header", cols, 0)
CountLine(n, verb) == Line(verb, <<>>, n)
FileBody == <<Line("file", <<>>, 0)>>

\* a worker's locals before it enters a query method
NoLoc ==
    [it |-> 0, itEnd |-> 0, rowCount |-> 0, looping |-> FALSE, i |-> 0,
     dangling |-> FALSE, newCSV |-> <<>>, counts |-> 0, row |-> <<>>, slot |-> 0]
\* woke: an update's notify_all woke the worker out of its wait;
\* missed: an update's notify_all ran while the worker was not blocked;
\* owed: a mutation of the table completed while the worker was blocked;
\* stale: an update wrote a row the worker's scan had already passed;
\* each since the worker's latest scan began.  delPre, delPost: the table
\* when a delete began, and what it swapped in; delQuiet: no other worker
\* changed the table in between.  updPre: the table when the latest
\* updateHelper call began; updQuiet: no other worker has changed the
\* table since.  selPre, selQuiet: the same of the latest selectHelper
\* call; insPre, insQuiet: the same of insertQuery.
NoHist ==
    [woke |-> FALSE, missed |-> FALSE, owed |-> FALSE, stale |-> FALSE,
     delPre |-> <<>>, delPost |-> <<>>, delQuiet |-> FALSE,
     updPre |-> <<>>, updQuiet |-> FALSE,
     selPre |-> <<>>, selQuiet |-> FALSE,
     insPre |-> <<>>, insQuiet |-> FALSE]

(* ------------------------- SQLAir::runServer -------------------------- *)
\* server.accept(*client->rdbuf()); std::unique_lock lock(thrMutex)
Accept ==
    /\ ~crashed
    /\ srvPc = "accept"
    /\ conns < MaxConn
    /\ conns' = conns + 1
    /\ thrMutex' = "server"
    /\ srvPc' = "check"
    /\ UNCHANGED <<qryVars, regVars>>
    /\ UNCHANGED <<maxThr, numThreads, crashed, cliVars>>

\* the admission test off by one
AdmitPredOffByOne == numThreads <= maxThr

\* the predicate of thrCond.wait(lock, pred), evaluated with thrMutex held
AdmitPred == numThreads < maxThr

AdmitCheck ==
    /\ ~crashed
    /\ srvPc = "check"
    /\ srvPc' = IF AdmitPred THEN "add" ELSE "block"
    /\ UNCHANGED <<qryVars, regVars>>
    /\ UNCHANGED <<maxThr, numThreads, thrMutex, conns, crashed, cliVars>>

\* thrCond.wait(lock): releases thrMutex and blocks.  The workers take no
\* lock for fetch_sub and notify_one, so both can fall before this step.
AdmitBlock ==
    /\ ~crashed
    /\ srvPc = "block"
    /\ srvPc' = "waiting"
    /\ thrMutex' = "free"
    /\ UNCHANGED <<qryVars, regVars>>
    /\ UNCHANGED <<maxThr, numThreads, conns, crashed, cliVars>>

\* a spurious return of thrCond.wait: the predicate is evaluated again
AdmitSpurious ==
    /\ ~crashed
    /\ srvPc = "waiting"
    /\ srvPc' = "check"
    /\ thrMutex' = "server"
    /\ UNCHANGED <<qryVars, regVars>>
    /\ UNCHANGED <<maxThr, numThreads, conns, crashed, cliVars>>

\* numThreads.fetch_add(1); the lock's scope ends
AdmitAdd ==
    /\ ~crashed
    /\ srvPc = "add"
    /\ numThreads' = numThreads + 1
    /\ thrMutex' = "free"
    /\ srvPc' = "spawn"
    /\ UNCHANGED <<qryVars, regVars>>
    /\ UNCHANGED <<maxThr, conns, crashed, cliVars>>

\* std::thread thr(&SQLAir::clientThread, this, client); thr.detach()
Spawn ==
    /\ ~crashed
    /\ srvPc = "spawn"
    /\ pc' = [pc EXCEPT ![conns] = "read"]
    /\ srvPc' = "accept"
    /\ UNCHANGED <<qryVars, regVars>>
    /\ UNCHANGED <<maxThr, numThreads, thrMutex, conns, crashed,
                   sql, os, exc, resp, subs>>

(* ------------------------ SQLAir::clientThread ------------------------ *)
\* requests: a data file, the empty query, or a statement
Requests == {"file", "", "stmt"}

\* *client >> req >> req; the headers; url_decode; the prefix test
ClientRead(c) ==
    /\ ~crashed
    /\ pc[c] = "read"
    /\ \E r \in Requests :
         /\ sql' = [sql EXCEPT ![c] = r]
         /\ pc' = [pc EXCEPT ![c] = IF r = "file" THEN "file" ELSE "trim"]
    /\ UNCHANGED <<qryVars, regVars>>
    /\ UNCHANGED <<srvVars, os, exc, resp, subs>>

\* *client << http::file("./" + req)
ClientFile(c) ==
    /\ ~crashed
    /\ pc[c] = "file"
    /\ resp' = [resp EXCEPT ![c] = Append(@, FileBody)]
    /\ pc' = [pc EXCEPT ![c] = "release"]
    /\ UNCHANGED <<qryVars, regVars>>
    /\ UNCHANGED <<srvVars, sql, os, exc, subs>>

\* sql = trim(req.substr(prefix.size())); if (sql.back() == ';') pop_back().
\* back() on the empty string is undefined: the build either reads a byte
\* that is not ';' and goes on, or aborts the process.
ClientTrim(c) ==
    /\ ~crashed
    /\ pc[c] = "trim"
    /\ \/ /\ pc' = [pc EXCEPT ![c] = "process"]
          /\ UNCHANGED crashed
       \/ /\ sql[c] = ""
          /\ crashed' = TRUE
          /\ UNCHANGED pc
    /\ UNCHANGED <<qryVars, regVars>>
    /\ UNCHANGED <<maxThr, numThreads, thrMutex, srvPc, conns,
                   sql, os, exc, resp, subs>>

\* what process(sql, os) may have written when it returns or throws
ProcessOutputs == {<<>>, <<HeaderLine(<<"zz">>)>>}

\* process(sql, os) inside the try block, by its outcomes: it returns after
\* writing its result, throws (selectHelper writes the header line before
\* printRow looks the column up), or blocks in a wait-for-match query.
ProcessAbs(c) ==
    /\ ~crashed
    /\ pc[c] = "process"
    /\ \/ /\ sql[c] = "stmt"
          /\ os' = [os EXCEPT ![c] = <<CountLine(0, "selected")>>]
          /\ pc' = [pc EXCEPT ![c] = "send"]
          /\ UNCHANGED exc
       \/ \E f \in Failures, o \in ProcessOutputs :
            /\ (sql[c] = "") => (f = "MalformedStatement" /\ o = <<>>)
            /\ (o # <<>>) => (f = "ColumnNotFound")
            /\ os' = [os EXCEPT ![c] = o]
            /\ exc' = [exc EXCEPT ![c] = f]
            /\ pc' = [pc EXCEPT ![c] = "catch"]
       \/ /\ sql[c] = "stmt"
          /\ pc' = [pc EXCEPT ![c] = "blocked"]
          /\ UNCHANGED <<os, exc>>
    /\ UNCHANGED <<qryVars, regVars>>
    /\ UNCHANGED <<srvVars, sql, resp, subs>>

\* catch (const std::exception& exp) { os << "Error: " << exp.what() ... }
ClientCatch(c) ==
    /\ ~crashed
    /\ pc[c] = "catch"
    /\ os' = [os EXCEPT ![c] = Append(@, ErrorLine(exc[c]))]
    /\ exc' = [exc EXCEPT ![c] = "none"]
    /\ pc' = [pc EXCEPT ![c] = "send"]
    /\ UNCHANGED <<qryVars, regVars>>
    /\ UNCHANGED <<srvVars, sql, resp, subs>>

\* *client << HTTPRespHeader << resp.size() << "\r\n\r\n" << resp
ClientSend(c) ==
    /\ ~crashed
    /\ pc[c] = "send"
    /\ resp' = [resp EXCEPT ![c] = Append(@, os[c])]
    /\ os' = [os EXCEPT ![c] = <<>>]
    /\ loc' = [loc EXCEPT ![c] = NoLoc]
    /\ hist' = [hist EXCEPT ![c] = NoHist]
    /\ pc' = [pc EXCEPT ![c] = "release"]
    /\ UNCHANGED <<srvVars, sql, exc, subs, tblVars, qry, regVars>>

\* numThreads.fetch_sub(1, std::memory_order_relaxed)
ClientRelease(c) ==
    /\ ~crashed
    /\ pc[c] = "release"
    /\ numThreads' = numThreads - 1
    /\ subs' = [subs EXCEPT ![c] = @ + 1]
    /\ pc' = [pc EXCEPT ![c] = "notify"]
    /\ UNCHANGED <<qryVars, regVars>>
    /\ UNCHANGED <<maxThr, thrMutex, srvPc, conns, crashed, sql, os, exc, resp>>

\* thrCond.notify_one(): wakes the acceptor if it is blocked in the wait
ClientNotify(c) ==
    /\ ~crashed
    /\ pc[c] = "notify"
    /\ pc' = [pc EXCEPT ![c] = "exit"]
    /\ IF srvPc = "waiting"
         THEN srvPc' = "check" /\ thrMutex' = "server"
         ELSE UNCHANGED <<srvPc, thrMutex>>
    /\ UNCHANGED <<qryVars, regVars>>
    /\ UNCHANGED <<maxThr, numThreads, conns, crashed, sql, os, exc, resp, subs>>

(* ------------------------------ the table ----------------------------- *)
\* the workers that run a statement each in SpecQuery and SpecRegistry:
\* two, the fewest that make a statement concurrent with another
Workers == {1, 2}
QThreads == Cardinality(Workers)
\* rows of the table at the start
MaxRows == 2


\* CSV::getColumnNames(): the header of the loaded file
ColumnNames == <<"c0", "c1">>
Vals == {"a", "b"}
\* every row a table of these columns can hold
RowDomain == [1 .. Len(ColumnNames) -> Vals \cup {""}]

\* CSV::getColumnIndex(colName): the 0-based index, or -1 where it throws
GetColumnIndex(name) ==
    IF \E i \in 1 .. Len(ColumnNames) : ColumnNames[i] = name
      THEN (CHOOSE i \in 1 .. Len(ColumnNames) : ColumnNames[i] = name) - 1
      ELSE -1

\* SQLAirBase::matches(cell, cond, value)
Matches(cell, cond, value) ==
    IF cond = "=" THEN cell = value ELSE cell # value

\* a match test that takes every row
IsMatchAlways(q, row) == TRUE

\* whereColIdx == -1 || matches(row.at(whereColIdx), cond, value)
IsMatch(q, row) ==
    \/ q.whereColIdx = -1
    \/ Matches(row[q.whereColIdx + 1], q.cond, q.value)

\* std::vector's growth: the capacity that holds one more element
GrowCap(k) == IF k = 0 THEN 1 ELSE 2 * k
\* the capacity of a vector filled by n push_back calls
RECURSIVE CapFrom(_, _)
CapFrom(k, n) == IF k >= n THEN k ELSE CapFrom(GrowCap(k), n)
CapFor(n) == CapFrom(0, n)

FreeLocks(n) == [i \in 1 .. n |-> 0]

\* the statements the workers run
Stmt(op, mw, cols, vs, wi, cd, v) ==
    [op |-> op, mustWait |-> mw, colNames |-> cols, values |-> vs,
     whereColIdx |-> wi, cond |-> cd, value |-> v]
Statements ==
    << Stmt("select", FALSE, <<"*">>, <<>>, -1, "=", ""),
       Stmt("select", TRUE, <<"*">>, <<>>, 0, "=", "b"),
       Stmt("select", FALSE, <<"zz">>, <<>>, -1, "=", ""),
       Stmt("update", FALSE, <<"c0">>, <<"b">>, -1, "=", ""),
       Stmt("update", TRUE, <<"c0", "c1">>, <<"b", "b">>, 0, "=", "a"),
       Stmt("insert", FALSE, <<"c0">>, <<"b">>, -1, "=", ""),
       Stmt("delete", FALSE, <<>>, <<>>, 0, "=", "a"),
       Stmt("delete", FALSE, <<>>, <<>>, -1, "=", ""),
       Stmt("select", FALSE, <<"*">>, <<>>, 0, "=", "a") >>
\* the workers are interchangeable: their statements are taken in the
\* list's order
Workloads ==
    {[c \in Workers |-> Statements[f[c]]] :
       f \in {g \in [Workers -> 1 .. Len(Statements)] :
                \A c, d \in Workers : c <= d => g[c] <= g[d]}}

\* the rows a loaded file holds
InitRows == {<<"a", "a">>, <<"b", "a">>}
InitTables == UNION {[1 .. n -> InitRows] : n \in 0 .. MaxRows}

\* workers whose iterators point into the vector's buffer
Scanning(d) ==
    pc[d] \in {"sel_scan", "sel_print", "upd_scan", "upd_write", "del_scan"}

\* the row *it refers to: the table's row, or, once the buffer it pointed
\* into is gone, whatever the freed memory holds
RowsAt(c) ==
    IF loc[c].dangling THEN RowDomain ELSE {csv[loc[c].it]}

\* a row's mutex that excludes nobody
LockIgnored(c) == TRUE

\* the row's mutex can be taken (a lock in freed memory guards nothing)
CanLock(c) == IF loc[c].dangling THEN TRUE ELSE rowMutex[loc[c].it] = 0

\* a use of a dangling iterator may also end the process
UBCrash(c) ==
    /\ ~crashed
    /\ Scanning(c)
    /\ loc[c].dangling
    /\ crashed' = TRUE
    /\ UNCHANGED <<maxThr, numThreads, thrMutex, srvPc, conns, cliVars,
                   qryVars, regVars>>

\* another worker changes the table while a delete is between its scan
\* and its swap
Disturb(c) ==
    [d \in DOMAIN hist |->
       IF d # c /\ pc[d] \in {"del_scan", "del_swap"}
         THEN [hist[d] EXCEPT !.delQuiet = FALSE]
       ELSE IF d # c /\ hist[d].updQuiet
         THEN [hist[d] EXCEPT !.updQuiet = FALSE, !.updPre = <<>>]
       ELSE IF d # c /\ hist[d].selQuiet
         THEN [hist[d] EXCEPT !.selQuiet = FALSE, !.selPre = <<>>]
       ELSE IF d # c /\ hist[d].insQuiet
         THEN [hist[d] EXCEPT !.insQuiet = FALSE, !.insPre = <<>>]
       ELSE hist[d]]

\* the scan of d has read row j of the table already
ScanPast(d, j) ==
    \/ /\ pc[d] \in {"sel_scan", "sel_print", "upd_scan", "upd_write"}
       /\ ~loc[d].dangling
       /\ loc[d].it > j
    \/ pc[d] \in {"upd_notify", "csv_lock", "csv_wait", "waiting", "woken"}

\* c writes row j: the scans that have passed it no longer show the table
Stale(h, c, j) ==
    [d \in DOMAIN h |->
       IF d # c /\ ScanPast(d, j) THEN [h[d] EXCEPT !.stale = TRUE]
       ELSE h[d]]

\* the loop entered whenever no row matched
AfterSelectLoops(c, rc) ==
    IF loc[c].looping THEN "csv_lock"
    ELSE IF rc = 0 THEN "sel_begin"
    ELSE "send"

\* where a select goes when selectHelper returns rc: into the while loop,
\* on to the wait, or to its count line
AfterSelect(c, rc) ==
    IF loc[c].looping THEN "csv_lock"
    ELSE IF rc = 0 /\ qry[c].mustWait THEN "sel_begin"
    ELSE "send"

SelectCols(q) ==
    IF Len(q.colNames) = 1 /\ q.colNames[1] = "*" THEN ColumnNames
    ELSE q.colNames

\* selectHelper's entry: the range-for takes csv.begin() and csv.end()
SelectHelper(c, lp) ==
    LET end == Len(csv)
        npc == IF end >= 1 THEN "sel_scan"
               ELSE IF lp THEN "csv_lock"
               ELSE IF qry[c].mustWait THEN "sel_begin" ELSE "send"
    IN  /\ loc' = [loc EXCEPT ![c] =
                     [@ EXCEPT !.it = 1, !.itEnd = end, !.rowCount = 0,
                               !.looping = lp, !.dangling = FALSE]]
        /\ hist' = [hist EXCEPT ![c] =
                      [@ EXCEPT !.woke = FALSE, !.missed = FALSE,
                                !.owed = FALSE, !.stale = FALSE,
                                !.selPre = csv, !.selQuiet = TRUE]]
        /\ pc' = [pc EXCEPT ![c] = npc]
        /\ os' = [os EXCEPT ![c] =
                    IF npc = "send" THEN Append(@, CountLine(0, "selected"))
                    ELSE @]
        /\ UNCHANGED <<srvVars, sql, exc, resp, subs, tblVars, qry, regVars>>

\* selectQuery: the first call of selectHelper
SelectQuery(c) ==
    /\ ~crashed
    /\ pc[c] = "process"
    /\ qry[c].op = "select"
    /\ SelectHelper(c, FALSE)

\* the call of selectHelper inside while (rowCount == 0 && mustWait)
SelectAgain(c) ==
    /\ ~crashed
    /\ pc[c] = "sel_begin"
    /\ SelectHelper(c, TRUE)

\* one row of selectHelper's loop: the match test under the row's lock and,
\* for a row that does not match, the step to the next row
SelectTest(c) ==
    /\ ~crashed
    /\ pc[c] = "sel_scan"
    /\ CanLock(c)
    /\ \E row \in RowsAt(c) :
         LET q == qry[c]
             l == loc[c]
             npc == IF l.it + 1 <= l.itEnd THEN "sel_scan"
                    ELSE AfterSelect(c, l.rowCount)
         IN  IF IsMatch(q, row)
               THEN /\ os' = [os EXCEPT ![c] =
                                IF l.rowCount = 0
                                  THEN Append(@, HeaderLine(SelectCols(q)))
                                  ELSE @]
                    /\ pc' = [pc EXCEPT ![c] = "sel_print"]
                    /\ UNCHANGED loc
               ELSE /\ loc' = [loc EXCEPT ![c] = [@ EXCEPT !.it = l.it + 1]]
                    /\ pc' = [pc EXCEPT ![c] = npc]
                    /\ os' = [os EXCEPT ![c] =
                                IF npc = "send"
                                  THEN Append(@, CountLine(l.rowCount, "selected"))
                                  ELSE @]
    /\ UNCHANGED <<srvVars, sql, exc, resp, subs, tblVars, qry,
                   hist, regVars>>

\* the cells printRow writes for the columns it finds, up to the first
\* column name getColumnIndex rejects
RECURSIVE Printed(_, _)
Printed(row, cols) ==
    IF cols = <<>> \/ GetColumnIndex(Head(cols)) = -1 THEN <<>>
    ELSE <<row[GetColumnIndex(Head(cols)) + 1]>> \o Printed(row, Tail(cols))

\* printRow: the copy of the row under its lock, then the line; rowCount++
PrintRow(c) ==
    /\ ~crashed
    /\ pc[c] = "sel_print"
    /\ CanLock(c)
    /\ \E rowCopy \in RowsAt(c) :
         LET q == qry[c]
             l == loc[c]
             cols == SelectCols(q)
             cells == Printed(rowCopy, cols)
             rc == l.rowCount + 1
             npc == IF l.it + 1 <= l.itEnd THEN "sel_scan"
                    ELSE AfterSelect(c, rc)
         IN  IF Len(cells) < Len(cols)
               THEN \* getColumnIndex throws out of printRow
                    /\ os' = [os EXCEPT ![c] =
                                IF cells = <<>> THEN @
                                ELSE Append(@, Line("cells", cells, 0))]
                    /\ exc' = [exc EXCEPT ![c] = "ColumnNotFound"]
                    /\ pc' = [pc EXCEPT ![c] = "catch"]
                    /\ UNCHANGED loc
               ELSE /\ os' = [os EXCEPT ![c] =
                                IF npc = "send"
                                  THEN Append(Append(@, Line("row", cells, 0)),
                                              CountLine(rc, "selected"))
                                  ELSE Append(@, Line("row", cells, 0))]
                    /\ loc' = [loc EXCEPT ![c] =
                                 [@ EXCEPT !.it = l.it + 1, !.rowCount = rc]]
                    /\ pc' = [pc EXCEPT ![c] = npc]
                    /\ UNCHANGED exc
    /\ UNCHANGED <<srvVars, sql, resp, subs, tblVars, qry,
                   hist, regVars>>

(* ------------------------- update and the wait ------------------------ *)
AfterUpdate(c, rc) ==
    IF loc[c].looping THEN "csv_lock"
    ELSE IF rc = 0 /\ qry[c].mustWait THEN "upd_begin"
    ELSE "send"

\* updateHelper's column list: every column when a name is "*"
UpdateCols(q) ==
    IF \E k \in 1 .. Len(q.colNames) : q.colNames[k] = "*" THEN ColumnNames
    ELSE q.colNames

\* where updateHelper goes after the row at it: the next row, the
\* notify_all of a scan that changed rows, or back into updateQuery
UpdateNext(c, it2, rc) ==
    IF it2 <= loc[c].itEnd THEN "upd_scan"
    ELSE IF rc > 0 THEN "upd_notify"
    ELSE AfterUpdate(c, rc)

\* updateHelper's entry
UpdateHelper(c, lp) ==
    LET end == Len(csv)
        npc == IF end >= 1 THEN "upd_scan"
               ELSE IF lp THEN "csv_lock"
               ELSE IF qry[c].mustWait THEN "upd_begin" ELSE "send"
    IN  /\ loc' = [loc EXCEPT ![c] =
                     [@ EXCEPT !.it = 1, !.itEnd = end, !.rowCount = 0,
                               !.looping = lp, !.dangling = FALSE, !.i = 0]]
        /\ hist' = [hist EXCEPT ![c] =
                      [@ EXCEPT !.woke = FALSE, !.missed = FALSE,
                                !.owed = FALSE, !.stale = FALSE,
                                !.updPre = csv, !.updQuiet = TRUE]]
        /\ pc' = [pc EXCEPT ![c] = npc]
        /\ os' = [os EXCEPT ![c] =
                    IF npc = "send" THEN Append(@, CountLine(0, "updated"))
                    ELSE @]
        /\ UNCHANGED <<srvVars, sql, exc, resp, subs, tblVars, qry, regVars>>

UpdateQuery(c) ==
    /\ ~crashed
    /\ pc[c] = "process"
    /\ qry[c].op = "update"
    /\ UpdateHelper(c, FALSE)

UpdateAgain(c) ==
    /\ ~crashed
    /\ pc[c] = "upd_begin"
    /\ UpdateHelper(c, TRUE)

\* row.at(colIdx) = values[i] for column i (1-based here) of the row at it,
\* and what follows it: the next column under the same lock, or the end of
\* the row's visit.  getColumnIndex throwing unwinds through the lock.
UpdateCell(c, k) ==
    LET q == qry[c]
        l == loc[c]
        cols == UpdateCols(q)
        colIdx == GetColumnIndex(cols[k])
        last == k = Len(cols)
        rc == l.rowCount + 1
        npc == UpdateNext(c, l.it + 1, rc)
        live == ~l.dangling
    IN  IF colIdx = -1
          THEN /\ exc' = [exc EXCEPT ![c] = "ColumnNotFound"]
               /\ pc' = [pc EXCEPT ![c] = "catch"]
               /\ rowMutex' = IF live THEN [rowMutex EXCEPT ![l.it] = 0]
                              ELSE rowMutex
               /\ UNCHANGED <<csv, loc, os, hist>>
          ELSE /\ csv' = IF live
                           THEN [csv EXCEPT ![l.it][colIdx + 1] = q.values[k]]
                           ELSE csv
               /\ hist' = IF live THEN Stale(Disturb(c), c, l.it) ELSE hist
               /\ rowMutex' = IF live
                                THEN [rowMutex EXCEPT ![l.it] =
                                        IF last THEN 0 ELSE c]
                                ELSE rowMutex
               /\ loc' = [loc EXCEPT ![c] =
                            IF last
                              THEN [@ EXCEPT !.it = l.it + 1, !.rowCount = rc,
                                             !.i = 0]
                              ELSE [@ EXCEPT !.i = k]]
               /\ pc' = [pc EXCEPT ![c] = IF last THEN npc ELSE "upd_write"]
               /\ os' = [os EXCEPT ![c] =
                           IF last /\ npc = "send"
                             THEN Append(@, CountLine(rc, "updated")) ELSE @]
               /\ UNCHANGED exc

\* one row of updateHelper's loop: the row's lock, the match test and, for
\* a matching row, the first column's write
UpdateRow(c) ==
    /\ ~crashed
    /\ pc[c] = "upd_scan"
    /\ CanLock(c)
    /\ \E row \in RowsAt(c) :
         LET l == loc[c]
             npc == UpdateNext(c, l.it + 1, l.rowCount)
         IN  IF IsMatch(qry[c], row)
               THEN UpdateCell(c, 1)
               ELSE /\ loc' = [loc EXCEPT ![c] = [@ EXCEPT !.it = l.it + 1]]
                    /\ pc' = [pc EXCEPT ![c] = npc]
                    /\ os' = [os EXCEPT ![c] =
                                IF npc = "send"
                                  THEN Append(@, CountLine(l.rowCount, "updated"))
                                  ELSE @]
                    /\ UNCHANGED <<csv, rowMutex, exc, hist>>
    /\ UNCHANGED <<srvVars, sql, resp, subs, cap, csvMutex, qry, regVars>>

\* the further columns of a matching row, the row's lock still held
UpdateWrite(c) ==
    /\ ~crashed
    /\ pc[c] = "upd_write"
    /\ UpdateCell(c, loc[c].i + 1)
    /\ UNCHANGED <<srvVars, sql, resp, subs, cap, csvMutex, qry, regVars>>

\* workers inside selectQuery or updateQuery
InQuery(d) ==
    pc[d] \in {"sel_scan", "sel_print", "sel_begin", "upd_scan", "upd_write",
              "upd_begin", "upd_notify", "csv_lock", "csv_wait", "woken"}

\* if (rowCount > 0) csv.csvCondVar.notify_all(): every worker blocked in
\* csvCondVar.wait is woken; no lock is held for it
NotifyAll(c) ==
    /\ ~crashed
    /\ pc[c] = "upd_notify"
    /\ LET npc == AfterUpdate(c, loc[c].rowCount)
       IN  /\ pc' = [d \in DOMAIN pc |->
                       IF d = c THEN npc
                       ELSE IF pc[d] = "waiting" THEN "woken" ELSE pc[d]]
           /\ os' = [os EXCEPT ![c] =
                       IF npc = "send"
                         THEN Append(@, CountLine(loc[c].rowCount, "updated"))
                         ELSE @]
    /\ hist' = [d \in DOMAIN hist |->
                  IF d = c THEN hist[d]
                  ELSE IF pc[d] = "waiting"
                    THEN [hist[d] EXCEPT !.woke = TRUE, !.owed = TRUE]
                  ELSE IF InQuery(d)
                    THEN [hist[d] EXCEPT !.missed = TRUE]
                  ELSE hist[d]]
    /\ UNCHANGED <<srvVars, sql, exc, resp, subs, tblVars, qry, loc, regVars>>

\* std::unique_lock lock(csv.csvMutex), after the scan of the loop's body
CsvLock(c) ==
    /\ ~crashed
    /\ pc[c] = "csv_lock"
    /\ csvMutex = 0
    /\ csvMutex' = c
    /\ pc' = [pc EXCEPT ![c] = "csv_wait"]
    /\ UNCHANGED <<srvVars, sql, os, exc, resp, subs, csv, rowMutex, cap,
                   qry, loc, hist, regVars>>

\* a wait that blocks with the mutex kept
CsvWaitHolding(c) ==
    /\ ~crashed
    /\ pc[c] = "csv_wait"
    /\ pc' = [pc EXCEPT ![c] = "waiting"]
    /\ UNCHANGED <<srvVars, sql, os, exc, resp, subs, csv, rowMutex, cap,
                   csvMutex, qry, loc, hist, regVars>>

\* csv.csvCondVar.wait(lock): gives the mutex up and blocks
CsvWait(c) ==
    /\ ~crashed
    /\ pc[c] = "csv_wait"
    /\ csvMutex' = 0
    /\ pc' = [pc EXCEPT ![c] = "waiting"]
    /\ UNCHANGED <<srvVars, sql, os, exc, resp, subs, csv, rowMutex, cap,
                   qry, loc, hist, regVars>>

\* a spurious return of csvCondVar.wait
CsvSpurious(c) ==
    /\ ~crashed
    /\ pc[c] = "waiting"
    /\ pc' = [pc EXCEPT ![c] = "woken"]
    /\ UNCHANGED <<srvVars, sql, os, exc, resp, subs, qryVars, regVars>>

\* wait returns with the mutex taken again; the lock's scope ends; the
\* while loop tests the rowCount of the scan made before the wait
CsvWake(c) ==
    /\ ~crashed
    /\ pc[c] = "woken"
    /\ csvMutex = 0
    /\ LET sel == qry[c].op = "select"
           rc == loc[c].rowCount
           npc == IF rc = 0 /\ qry[c].mustWait
                    THEN (IF sel THEN "sel_begin" ELSE "upd_begin")
                    ELSE "send"
       IN  /\ pc' = [pc EXCEPT ![c] = npc]
           /\ os' = [os EXCEPT ![c] =
                       IF npc = "send"
                         THEN Append(@, CountLine(rc, IF sel THEN "selected"
                                                      ELSE "updated"))
                         ELSE @]
    /\ UNCHANGED <<srvVars, sql, exc, resp, subs, qryVars, regVars>>

(* -------------------------- insert and delete ------------------------- *)
\* a successful mutation by c: the workers blocked in the wait at that
\* moment are owed a new scan
Owe(h, c) ==
    [d \in DOMAIN h |->
       IF d # c /\ pc[d] = "waiting" THEN [h[d] EXCEPT !.owed = TRUE]
       ELSE h[d]]

\* the vector's buffer is replaced: iterators into it dangle, as does the
\* end pointer a push_back has read
Invalidate(l, c) ==
    [d \in DOMAIN l |->
       IF d # c /\ (Scanning(d) \/ pc[d] = "ins_push")
         THEN [l[d] EXCEPT !.dangling = TRUE] ELSE l[d]]

\* an element is appended in place: only the end pointer a concurrent
\* push_back has read is stale
Outrun(l, c) ==
    [d \in DOMAIN l |->
       IF d # c /\ pc[d] = "ins_push"
         THEN [l[d] EXCEPT !.dangling = TRUE] ELSE l[d]]

\* a row left as the loop over the columns made it
FilledNone(row, cols, vs) == row

\* a row of the given values alone, with no cell for an unnamed column
FilledUnpadded(row, cols, vs) == vs

\* the row insertQuery builds: "" for each column, then the named columns
RECURSIVE Filled(_, _, _)
Filled(row, cols, vs) ==
    IF cols = <<>> THEN row
    ELSE Filled([row EXCEPT ![GetColumnIndex(Head(cols)) + 1] = Head(vs)],
                Tail(cols), Tail(vs))

\* insertQuery up to csv.push_back(row) reading the vector's end
InsertQuery(c) ==
    /\ ~crashed
    /\ pc[c] = "process"
    /\ qry[c].op = "insert"
    /\ LET q == qry[c]
           empty == [k \in 1 .. Len(ColumnNames) |-> ""]
       IN  IF \E k \in 1 .. Len(q.colNames) : GetColumnIndex(q.colNames[k]) = -1
             THEN /\ exc' = [exc EXCEPT ![c] = "ColumnNotFound"]
                  /\ pc' = [pc EXCEPT ![c] = "catch"]
                  /\ UNCHANGED <<loc, hist>>
             ELSE /\ loc' = [loc EXCEPT ![c] =
                               [@ EXCEPT !.row = Filled(empty, q.colNames, q.values),
                                         !.slot = Len(csv) + 1,
                                         !.dangling = FALSE]]
                  /\ hist' = [hist EXCEPT ![c] =
                                [@ EXCEPT !.insPre = csv, !.insQuiet = TRUE]]
                  /\ pc' = [pc EXCEPT ![c] = "ins_push"]
                  /\ UNCHANGED exc
    /\ UNCHANGED <<srvVars, sql, os, resp, subs, tblVars, qry, regVars>>

\* csv.push_back(row) storing the row and moving the end, then the
\* "1 row inserted." line.  No lock is held: when the vector changed since
\* the end was read, the row lands in a slot that is not the table's end.
PushBack(c) ==
    /\ ~crashed
    /\ pc[c] = "ins_push"
    /\ LET l == loc[c]
           n == Len(csv)
       IN  IF ~l.dangling
             THEN /\ csv' = Append(csv, l.row)
                  /\ IF n = cap
                       THEN /\ cap' = GrowCap(cap)
                            /\ rowMutex' = FreeLocks(n + 1)
                            /\ loc' = [Invalidate(loc, c) EXCEPT ![c].row = <<>>]
                       ELSE /\ cap' = cap
                            /\ rowMutex' = Append(rowMutex, 0)
                            /\ loc' = [Outrun(loc, c) EXCEPT ![c].row = <<>>]
                  /\ hist' = Owe(Disturb(c), c)
             ELSE /\ \/ UNCHANGED csv
                     \/ /\ l.slot <= n
                        /\ csv' = [csv EXCEPT ![l.slot] = l.row]
                  /\ loc' = [loc EXCEPT ![c].row = <<>>]
                  /\ hist' = Disturb(c)
                  /\ UNCHANGED <<cap, rowMutex>>
    /\ os' = [os EXCEPT ![c] = Append(@, CountLine(1, "inserted"))]
    /\ pc' = [pc EXCEPT ![c] = "send"]
    /\ UNCHANGED <<srvVars, sql, exc, resp, subs, csvMutex, qry, regVars>>

\* deleteQuery's entry: CSV newCSV; the range-for takes begin() and end()
DeleteQuery(c) ==
    /\ ~crashed
    /\ pc[c] = "process"
    /\ qry[c].op = "delete"
    /\ loc' = [loc EXCEPT ![c] =
                 [@ EXCEPT !.it = 1, !.itEnd = Len(csv), !.counts = 0,
                           !.newCSV = <<>>, !.dangling = FALSE]]
    /\ hist' = [hist EXCEPT ![c] =
                  [@ EXCEPT !.delPre = csv, !.delQuiet = TRUE]]
    /\ pc' = [pc EXCEPT ![c] = IF Len(csv) >= 1 THEN "del_scan" ELSE "del_swap"]
    /\ UNCHANGED <<srvVars, sql, os, exc, resp, subs, tblVars, qry, regVars>>

\* the keep test with the absent predicate taken to match every row
KeepsUnmatched(q, row) ==
    /\ q.whereColIdx # -1
    /\ ~Matches(row[q.whereColIdx + 1], q.cond, q.value)

\* the test deleteQuery keeps a row by
Keeps(q, row) ==
    \/ q.whereColIdx = -1
    \/ ~Matches(row[q.whereColIdx + 1], q.cond, q.value)

\* one row of deleteQuery's loop; the row is read without its lock
DeleteRow(c) ==
    /\ ~crashed
    /\ pc[c] = "del_scan"
    /\ \E row \in RowsAt(c) :
         LET l == loc[c]
             keep == Keeps(qry[c], row)
         IN  /\ loc' = [loc EXCEPT ![c] =
                          [@ EXCEPT !.it = l.it + 1,
                                    !.newCSV = IF keep THEN Append(@, row) ELSE @,
                                    !.counts = IF keep THEN @ + 1 ELSE @]]
             /\ pc' = [pc EXCEPT ![c] =
                         IF l.it + 1 <= l.itEnd THEN "del_scan" ELSE "del_swap"]
    /\ UNCHANGED <<srvVars, sql, os, exc, resp, subs, tblVars, qry,
                   hist, regVars>>

\* csv.swap(newCSV); os << counts << " row(s) Deleted."; newCSV, which now
\* holds the old buffer, is destroyed on return
DeleteSwap(c) ==
    /\ ~crashed
    /\ pc[c] = "del_swap"
    /\ LET l == loc[c]
           changed == l.newCSV # csv
       IN  /\ csv' = l.newCSV
           /\ rowMutex' = FreeLocks(Len(l.newCSV))
           /\ cap' = CapFor(Len(l.newCSV))
           /\ loc' = [Invalidate(loc, c) EXCEPT ![c].newCSV = <<>>]
           /\ hist' = [(IF changed THEN Owe(Disturb(c), c) ELSE Disturb(c))
                         EXCEPT ![c].delPost = l.newCSV]
           /\ os' = [os EXCEPT ![c] = Append(@, CountLine(l.counts, "Deleted"))]
    /\ pc' = [pc EXCEPT ![c] = "send"]
    /\ UNCHANGED <<srvVars, sql, exc, resp, subs, csvMutex, qry, regVars>>

(* ---------------------------- SpecQuery ------------------------------- *)
NoStmt == Stmt("none", FALSE, <<>>, <<>>, -1, "=", "")

\* the table and the workers' locals when no statement runs
IdleQuery(ws) ==
    /\ csv = <<>>
    /\ rowMutex = <<>>
    /\ cap = 0
    /\ csvMutex = 0
    /\ qry = [c \in ws |-> NoStmt]
    /\ loc = [c \in ws |-> NoLoc]
    /\ hist = [c \in ws |-> NoHist]

IdleRegistry(ws) ==
    /\ inMemoryCSV = <<>>
    /\ recentCSV = ""
    /\ recentCSVMutex = 0
    /\ ld = [c \in ws |-> <<>>]
    /\ ioLoads = <<>>
    /\ replaced = <<>>

\* QThreads workers admitted by runServer, each with its statement parsed
InitQuery ==
    /\ maxThr = QThreads
    /\ numThreads = QThreads
    /\ thrMutex = "free"
    /\ srvPc = "accept"
    /\ conns = QThreads
    /\ crashed = FALSE
    /\ pc = [c \in Workers |-> "process"]
    /\ sql = [c \in Workers |-> "stmt"]
    /\ os = [c \in Workers |-> <<>>]
    /\ exc = [c \in Workers |-> "none"]
    /\ resp = [c \in Workers |-> <<>>]
    /\ subs = [c \in Workers |-> 0]
    /\ csv \in InitTables
    /\ rowMutex = FreeLocks(Len(csv))
    /\ cap = CapFor(Len(csv))
    /\ csvMutex = 0
    /\ qry \in Workloads
    /\ loc = [c \in Workers |-> NoLoc]
    /\ hist = [c \in Workers |-> NoHist]
    /\ IdleRegistry(Workers)

NextQuery ==
    \E c \in Workers :
      \/ SelectQuery(c)
      \/ SelectAgain(c)
      \/ SelectTest(c)
      \/ PrintRow(c)
      \/ UpdateQuery(c)
      \/ UpdateAgain(c)
      \/ UpdateRow(c)
      \/ UpdateWrite(c)
      \/ NotifyAll(c)
      \/ CsvLock(c)
      \/ CsvWait(c)
      \/ CsvSpurious(c)
      \/ CsvWake(c)
      \/ InsertQuery(c)
      \/ PushBack(c)
      \/ DeleteQuery(c)
      \/ DeleteRow(c)
      \/ DeleteSwap(c)
      \/ UBCrash(c)
      \/ ClientCatch(c)
      \/ ClientSend(c)
      \/ ClientRelease(c)
      \/ ClientNotify(c)

SpecQuery == InitQuery /\ [][NextQuery]_vars

(* ------------------------- SQLAir::loadAndGet ------------------------- *)
\* the identifiers a statement may name: "" stands for the recent one
FileNames == {"", "t1.csv", "t2.csv", "gone.csv"}
\* what a load of each source reads; a source that cannot be read throws
FileRows(id) ==
    IF id = "t1.csv" THEN <<<<"a", "a">>>>
    ELSE IF id = "t2.csv" THEN <<<<"b", "a">>, <<"a", "b">>>>
    ELSE <<>>
Readable(id) == id \in {"t1.csv", "t2.csv"}

NoCSV == <<<<"no table">>>>
NoLoad == [fileOrURL |-> "", csv |-> NoCSV, ret |-> ""]

\* the first critical section: std::scoped_lock guard(recentCSVMutex)
LoadLock(c) ==
    /\ ~crashed
    /\ pc[c] = "process"
    /\ recentCSVMutex = 0
    /\ recentCSVMutex' = c
    /\ pc' = [pc EXCEPT ![c] = "lg_find"]
    /\ UNCHANGED <<srvVars, sql, os, exc, resp, subs, qryVars,
                   inMemoryCSV, recentCSV, ld, ioLoads, replaced>>

\* fileOrURL = (fileOrURL.empty() ? recentCSV : fileOrURL); recentCSV =
\* fileOrURL; the lookup; the guard's scope ends either way
LoadFind(c) ==
    /\ ~crashed
    /\ pc[c] = "lg_find"
    /\ LET id == IF ld[c].fileOrURL = "" THEN recentCSV ELSE ld[c].fileOrURL
       IN  /\ recentCSV' = id
           /\ IF inMemoryCSV[id] # NoCSV
                THEN /\ ld' = [ld EXCEPT ![c] = [@ EXCEPT !.fileOrURL = id,
                                                          !.ret = id]]
                     /\ pc' = [pc EXCEPT ![c] = "lg_use"]
                ELSE /\ ld' = [ld EXCEPT ![c] = [@ EXCEPT !.fileOrURL = id]]
                     /\ pc' = [pc EXCEPT ![c] = "lg_load"]
    /\ recentCSVMutex' = 0
    /\ UNCHANGED <<srvVars, sql, os, exc, resp, subs, qryVars,
                   inMemoryCSV, ioLoads, replaced>>

\* CSV csv; csv.load(data), outside any lock: it fills csv or throws
LoadIO(c) ==
    /\ ~crashed
    /\ pc[c] = "lg_load"
    /\ LET id == ld[c].fileOrURL
       IN  IF Readable(id)
             THEN /\ ld' = [ld EXCEPT ![c] = [@ EXCEPT !.csv = FileRows(id)]]
                  /\ ioLoads' = [ioLoads EXCEPT ![id] = @ + 1]
                  /\ pc' = [pc EXCEPT ![c] = "lg_lock"]
                  /\ UNCHANGED exc
             ELSE /\ exc' = [exc EXCEPT ![c] =
                               IF id = "" THEN "NoTableSelected"
                               ELSE "LoadFailure"]
                  /\ pc' = [pc EXCEPT ![c] = "catch"]
                  /\ UNCHANGED <<ld, ioLoads>>
    /\ UNCHANGED <<srvVars, sql, os, resp, subs, qryVars,
                   inMemoryCSV, recentCSV, recentCSVMutex, replaced>>

\* the second std::scoped_lock guard(recentCSVMutex)
StoreLock(c) ==
    /\ ~crashed
    /\ pc[c] = "lg_lock"
    /\ recentCSVMutex = 0
    /\ recentCSVMutex' = c
    /\ pc' = [pc EXCEPT ![c] = "lg_store"]
    /\ UNCHANGED <<srvVars, sql, os, exc, resp, subs, qryVars,
                   inMemoryCSV, recentCSV, ld, ioLoads, replaced>>

\* inMemoryCSV[fileOrURL].move(csv); return inMemoryCSV.at(fileOrURL):
\* operator[] finds the entry or makes it, and move fills it either way
Store(c) ==
    /\ ~crashed
    /\ pc[c] = "lg_store"
    /\ LET id == ld[c].fileOrURL
       IN  /\ inMemoryCSV' = [inMemoryCSV EXCEPT ![id] = ld[c].csv]
           /\ replaced' = [replaced EXCEPT ![id] =
                             IF inMemoryCSV[id] # NoCSV THEN @ + 1 ELSE @]
           /\ ld' = [ld EXCEPT ![c] = [@ EXCEPT !.csv = NoCSV, !.ret = id]]
    /\ recentCSVMutex' = 0
    /\ pc' = [pc EXCEPT ![c] = "lg_use"]
    /\ UNCHANGED <<srvVars, sql, os, exc, resp, subs, qryVars,
                   recentCSV, ioLoads>>

\* the statements that change a table and never wait
Mutations ==
    {Statements[k] : k \in {j \in 1 .. Len(Statements) :
                              /\ Statements[j].op \in {"update", "insert", "delete"}
                              /\ ~Statements[j].mustWait}}

\* the rows a table holds after statement q ran on it alone
Applied(q, rows) ==
    LET Kept(row) == Keeps(q, row)
    IN  IF q.op = "insert"
          THEN Append(rows, Filled([k \in 1 .. Len(ColumnNames) |-> ""],
                                   q.colNames, q.values))
        ELSE IF q.op = "update"
          THEN [j \in 1 .. Len(rows) |->
                  IF IsMatch(q, rows[j])
                    THEN Filled(rows[j], UpdateCols(q), q.values)
                    ELSE rows[j]]
        ELSE SelectSeq(rows, Kept)

\* the count line statement q writes when it ran on rows alone
Reported(q, rows) ==
    IF q.op = "insert" THEN CountLine(1, "inserted")
    ELSE IF q.op = "update"
      THEN CountLine(Cardinality({j \in 1 .. Len(rows) : IsMatch(q, rows[j])}),
                     "updated")
    ELSE CountLine(Len(Applied(q, rows)), "Deleted")

\* every table of the registry taken for the one loadAndGet returned
UseTableAny(c) ==
    /\ ~crashed
    /\ pc[c] = "lg_use"
    /\ \E q \in Mutations :
         /\ inMemoryCSV' = [id \in DOMAIN inMemoryCSV |->
                              IF inMemoryCSV[id] = NoCSV THEN NoCSV
                              ELSE Applied(q, inMemoryCSV[id])]
         /\ os' = [os EXCEPT ![c] =
                     Append(@, Reported(q, inMemoryCSV[ld[c].ret]))]
    /\ pc' = [pc EXCEPT ![c] = "send"]
    /\ UNCHANGED <<srvVars, sql, exc, resp, subs, qryVars,
                   recentCSV, recentCSVMutex, ld, ioLoads, replaced>>

\* the statement runs on the table loadAndGet returned, the CSV& csv of
\* the query methods: here an update, insert or delete taken as a whole
UseTable(c) ==
    /\ ~crashed
    /\ pc[c] = "lg_use"
    /\ \E q \in Mutations :
         /\ inMemoryCSV' = [inMemoryCSV EXCEPT ![ld[c].ret] = Applied(q, @)]
         /\ os' = [os EXCEPT ![c] =
                     Append(@, Reported(q, inMemoryCSV[ld[c].ret]))]
    /\ pc' = [pc EXCEPT ![c] = "send"]
    /\ UNCHANGED <<srvVars, sql, exc, resp, subs, qryVars,
                   recentCSV, recentCSVMutex, ld, ioLoads, replaced>>

(* --------------------------- SpecRegistry ----------------------------- *)
InitRegistry ==
    /\ maxThr = QThreads
    /\ numThreads = QThreads
    /\ thrMutex = "free"
    /\ srvPc = "accept"
    /\ conns = QThreads
    /\ crashed = FALSE
    /\ pc = [c \in Workers |-> "process"]
    /\ sql = [c \in Workers |-> "stmt"]
    /\ os = [c \in Workers |-> <<>>]
    /\ exc = [c \in Workers |-> "none"]
    /\ resp = [c \in Workers |-> <<>>]
    /\ subs = [c \in Workers |-> 0]
    /\ IdleQuery(Workers)
    /\ inMemoryCSV = [id \in FileNames |-> NoCSV]
    /\ recentCSV = ""
    /\ recentCSVMutex = 0
    /\ \E f \in [Workers -> FileNames] :
         ld = [c \in Workers |-> [NoLoad EXCEPT !.fileOrURL = f[c]]]
    /\ ioLoads = [id \in FileNames |-> 0]
    /\ replaced = [id \in FileNames |-> 0]

NextRegistry ==
    \E c \in Workers :
      \/ LoadLock(c)
      \/ LoadFind(c)
      \/ LoadIO(c)
      \/ StoreLock(c)
      \/ Store(c)
      \/ UseTable(c)
      \/ ClientCatch(c)
      \/ ClientSend(c)
      \/ ClientRelease(c)
      \/ ClientNotify(c)

SpecRegistry == InitRegistry /\ [][NextRegistry]_vars

(* --------------------------- SpecServer ------------------------------- *)
InitClients ==
    /\ pc = [c \in Conns |-> "unborn"]
    /\ sql = [c \in Conns |-> "file"]
    /\ os = [c \in Conns |-> <<>>]
    /\ exc = [c \in Conns |-> "none"]
    /\ resp = [c \in Conns |-> <<>>]
    /\ subs = [c \in Conns |-> 0]

InitServer ==
    /\ maxThr \in 1 .. MaxThrArg
    /\ numThreads = 0
    /\ thrMutex = "free"
    /\ srvPc = "accept"
    /\ conns = 0
    /\ crashed = FALSE
    /\ InitClients
    /\ IdleQuery(Conns)
    /\ IdleRegistry(Conns)

NextServer ==
    \/ Accept
    \/ AdmitCheck
    \/ AdmitBlock
    \/ AdmitSpurious
    \/ AdmitAdd
    \/ Spawn
    \/ \E c \in Conns :
         \/ ClientRead(c)
         \/ ClientFile(c)
         \/ ClientTrim(c)
         \/ ProcessAbs(c)
         \/ ClientCatch(c)
         \/ ClientSend(c)
         \/ ClientRelease(c)
         \/ ClientNotify(c)

SpecServer == InitServer /\ [][NextServer]_vars

(* ------------------------------ claims -------------------------------- *)
\* the workers admitted (counter incremented for them) that have not yet
\* run fetch_sub
Admitted ==
    {c \in Conns : pc[c] \notin {"unborn", "notify", "exit"}}
      \cup (IF srvPc = "spawn" THEN {conns} ELSE {})

\* C1: with maximum concurrency maxThr, the workers admitted and not yet
\* released never number more than maxThr, and the counter equals their
\* number, so no further worker is admitted until one has decremented it.
C1_AdmissionBound ==
    /\ Cardinality(Admitted) <= maxThr
    /\ numThreads = Cardinality(Admitted)

\* C1 witness: maxThr workers are active and the acceptor holds a further
\* connection back
C1_Witness ==
    /\ Cardinality(Admitted) = maxThr
    /\ srvPc = "waiting"
    /\ conns > maxThr

(* The claims below that concern the table are stated of a worker at "send": *)
(* its query method has returned and its locals and history are still held. *)

\* C2: a worker that an update's notify_all woke out of its wait does not
\* return the result of a scan that had passed a row before that update
\* wrote it: it scans again first.
C2_WokenScansAgain ==
    \A c \in Workers :
      (pc[c] = "send" /\ hist[c].woke) => ~hist[c].stale

\* C3: a blocking select or update goes to the wait only after a scan that
\* matched no row.
C3_WaitsOnlyAfterEmptyScan ==
    \A c \in Workers :
      pc[c] \in {"csv_lock", "csv_wait", "waiting"} => loc[c].rowCount = 0

\* C4: no worker is blocked in the wait while an update's notify_all has
\* run since that worker's latest scan began (no missed wakeup).
C4_NoMissedWakeup ==
    \A c \in Workers : pc[c] = "waiting" => ~hist[c].missed

\* C5: a worker blocked in the wait when another worker's mutation of the
\* table completed scans again: it neither returns without a new scan nor
\* is still blocked when every other worker has finished.
C5_ScansAgainAfterMutation ==
    \A c \in Workers :
      hist[c].owed =>
        /\ pc[c] # "send"
        /\ pc[c] = "waiting" => \E d \in Workers \ {c} : pc[d] # "exit"

\* the response bodies of c that hold an error line
Failed(c) ==
    \E k \in 1 .. Len(resp[c]) :
      \E j \in 1 .. Len(resp[c][k]) : resp[c][k][j].kind = "Error: "

\* C6: a request whose processing raised a failure gets exactly one
\* response, its body beginning with "Error: ", and its worker decrements
\* the counter exactly once.
C6_FailureResponse ==
    \A c \in DOMAIN pc :
      (pc[c] \in {"release", "notify", "exit"} /\ Failed(c)) =>
        /\ Len(resp[c]) = 1
        /\ resp[c][1][1].kind = "Error: "
        /\ pc[c] = "exit" => subs[c] = 1

\* C7: each identifier is loaded at most once and the table stored for it
\* is never overwritten by a later load.
C7_LoadedOnce ==
    \A id \in DOMAIN ioLoads : ioLoads[id] <= 1 /\ replaced[id] = 0

\* the rows of a table that a delete with statement q is to retain: those
\* that do not match its predicate, all of them when it has none
Retained(rows, q) ==
    LET Stays(row) ==
          IF q.whereColIdx = -1 THEN TRUE
          ELSE ~Matches(row[q.whereColIdx + 1], q.cond, q.value)
    IN  SelectSeq(rows, Stays)

\* a delete that has swapped its rows in, undisturbed by other workers
QuietDelete(c) ==
    /\ pc[c] = "send"
    /\ qry[c].op = "delete"
    /\ hist[c].delQuiet

\* C8: a delete that runs with no concurrent mutation leaves the table
\* holding the rows it held before that do not match the predicate, in
\* their order; with no predicate it removes none.
C8_DeleteKeepsOrder ==
    \A c \in Workers :
      QuietDelete(c) =>
        /\ hist[c].delPost = Retained(hist[c].delPre, qry[c])
        /\ qry[c].whereColIdx = -1 => hist[c].delPost = hist[c].delPre

\* C8 witness: an undisturbed delete removed a row and retained a row
C8_Witness ==
    \E c \in Workers :
      /\ QuietDelete(c)
      /\ Len(hist[c].delPost) >= 1
      /\ Len(hist[c].delPost) < Len(hist[c].delPre)

\* C9: the n of "n row(s) Deleted." is the number of rows the delete
\* removed.
C9_DeletedCount ==
    \A c \in Workers :
      QuietDelete(c) =>
        os[c][Len(os[c])].n = Len(hist[c].delPre) - Len(hist[c].delPost)

\* c reads or writes a row of the table, or appends one, in this step
RowStep(c) ==
    /\ pc[c] \in {"sel_scan", "sel_print", "upd_scan", "upd_write", "ins_push"}
    /\ ~loc[c].dangling
    /\ \/ pc'[c] # pc[c]
       \/ loc'[c].it # loc[c].it
       \/ loc'[c].i # loc[c].i

\* C10: while a delete is between the start of its scan and its swap, no
\* other worker reads, writes or appends a row of the table.
C10_DeleteExcludes ==
    [][\A d \in Workers :
         pc[d] \in {"del_scan", "del_swap"} =>
           \A c \in Workers \ {d} : ~RowStep(c)]_vars

\* c, its iterator valid, writes a row line in this step
PrintsRow(c) ==
    /\ pc[c] = "sel_print"
    /\ ~loc[c].dangling
    /\ loc'[c].rowCount = loc[c].rowCount + 1

\* d has written some and not yet all of its columns of row j
MidRow(d, j) ==
    /\ pc[d] = "upd_write"
    /\ ~loc[d].dangling
    /\ loc[d].it = j

\* C11: a row line a select writes holds the row as it was at one instant,
\* and at that instant no update was part-way through the row's columns:
\* the line shows all of a concurrent update's values or none.
C11_RowSnapshot ==
    [][\A c \in Workers :
         PrintsRow(c) =>
           /\ \A d \in Workers \ {c} : ~MidRow(d, loc[c].it)
           /\ os'[c][Len(os[c]) + 1].cells =
                Printed(csv[loc[c].it], SelectCols(qry[c]))]_vars

\* C11 witness: a select has written the row a two-column update made
\* while that update is still running
C11_Witness ==
    \E c, d \in Workers :
      /\ c # d
      /\ qry[c].op = "select"
      /\ \E k \in 1 .. Len(os[c]) :
           os[c][k].kind = "row" /\ os[c][k].cells = <<"b", "b">>
      /\ qry[d].op = "update"
      /\ Len(qry[d].colNames) = 2
      /\ pc[d] \in {"upd_scan", "upd_write", "upd_notify"}

\* row satisfies the predicate of statement q (every row when it has none)
Satisfies(q, row) ==
    IF q.whereColIdx = -1 THEN TRUE
    ELSE Matches(row[q.whereColIdx + 1], q.cond, q.value)

\* row with each column that q names set to the value at the name's
\* position in q's value list, every other cell as it was
Assigned(q, row) ==
    [k \in 1 .. Len(row) |->
       IF \E i \in 1 .. Len(q.colNames) : q.colNames[i] = ColumnNames[k]
         THEN q.values[CHOOSE i \in 1 .. Len(q.colNames) :
                         q.colNames[i] = ColumnNames[k]]
         ELSE row[k]]

\* an update that has returned with no other worker having changed the
\* table since its scan began
QuietUpdate(c) ==
    /\ pc[c] = "send"
    /\ qry[c].op = "update"
    /\ hist[c].updQuiet

\* C12: an update that runs with no concurrent mutation leaves the table
\* with the same rows in the same order, each row that matched the
\* predicate holding the new values in the named columns and its other
\* cells as before, each other row as before, and reports the number of
\* rows that matched.
C12_UpdateAssigns ==
    \A c \in Workers :
      QuietUpdate(c) =>
        LET pre == hist[c].updPre
            q == qry[c]
        IN  /\ Len(csv) = Len(pre)
            /\ \A j \in 1 .. Len(pre) :
                 csv[j] = IF Satisfies(q, pre[j]) THEN Assigned(q, pre[j])
                          ELSE pre[j]
            /\ os[c][Len(os[c])].kind = "updated"
            /\ os[c][Len(os[c])].n =
                 Cardinality({j \in 1 .. Len(pre) : Satisfies(q, pre[j])})

\* C12 witness: an undisturbed two-column update with a predicate changed
\* one row and left another
C12_Witness ==
    \E c \in Workers :
      /\ QuietUpdate(c)
      /\ qry[c].whereColIdx # -1
      /\ Len(qry[c].colNames) = 2
      /\ \E j, k \in 1 .. Len(csv) :
           /\ Satisfies(qry[c], hist[c].updPre[j])
           /\ csv[j] # hist[c].updPre[j]
           /\ ~Satisfies(qry[c], hist[c].updPre[k])

\* an insert that has returned with no other worker having changed the
\* table since it began
QuietInsert(d) ==
    /\ pc[d] = "send"
    /\ qry[d].op = "insert"
    /\ hist[d].insQuiet

\* a select * with no predicate that has returned with no worker having
\* changed the table since its scan began
QuietSelectAll(c) ==
    /\ pc[c] = "send"
    /\ qry[c].op = "select"
    /\ qry[c].colNames = <<"*">>
    /\ qry[c].whereColIdx = -1
    /\ hist[c].selQuiet

\* the row lines among the lines of a response body
RowLines(lines) ==
    LET IsRow(ln) == ln.kind = "row"
    IN  SelectSeq(lines, IsRow)

\* C13: after an insert, the table is the table before it followed by one
\* row that holds the given values in the named columns and "" in the
\* others; a select * with no predicate made right after it reports one
\* row more than the table held before and shows the new row last.
C13_InsertThenSelect ==
    \A d \in Workers :
      QuietInsert(d) =>
        LET pre == hist[d].insPre
            new == Assigned(qry[d], [k \in 1 .. Len(ColumnNames) |-> ""])
        IN  /\ csv = Append(pre, new)
            /\ \A c \in Workers \ {d} :
                 QuietSelectAll(c) =>
                   /\ os[c][Len(os[c])].n = Len(pre) + 1
                   /\ Len(RowLines(os[c])) = Len(pre) + 1
                   /\ \A j \in 1 .. Len(pre) :
                        RowLines(os[c])[j].cells = pre[j]
                   /\ RowLines(os[c])[Len(pre) + 1].cells = new

\* C13 witness: an insert into a table that held a row, and a select *
\* made after it, have both returned
C13_Witness ==
    \E c, d \in Workers :
      /\ c # d
      /\ QuietInsert(d)
      /\ QuietSelectAll(c)
      /\ Len(hist[d].insPre) >= 1
      /\ Len(RowLines(os[c])) = Len(hist[d].insPre) + 1

\* c runs a select with mustWait false
NonBlockingSelect(c) ==
    /\ qry[c].op = "select"
    /\ ~qry[c].mustWait

\* C14: a select with mustWait false makes its one scan outside the while
\* loop and is never at the loop's scan, the table lock or the wait; when
\* it returns having matched no row its output is the line
\* "0 row(s) selected." alone.
C14_NonBlockingSelect ==
    \A c \in Workers :
      NonBlockingSelect(c) =>
        /\ ~loc[c].looping
        /\ pc[c] \notin {"sel_begin", "csv_lock", "csv_wait", "waiting", "woken"}
        /\ (/\ pc[c] = "send"
            /\ os[c][Len(os[c])] = CountLine(0, "selected"))
             => Len(os[c]) = 1

\* C14 witness: a select with a predicate and mustWait false has returned
\* from a table that holds a row, none of them matching
C14_Witness ==
    \E c \in Workers :
      /\ NonBlockingSelect(c)
      /\ qry[c].whereColIdx # -1
      /\ pc[c] = "send"
      /\ hist[c].selQuiet
      /\ Len(csv) >= 1
      /\ os[c] = <<CountLine(0, "selected")>>

\* some worker's statement has run on the table stored under id
Operated(id) ==
    \E c \in Workers :
      /\ ld[c].ret = id
      /\ pc[c] \in {"send", "release", "notify", "exit"}

\* C15: a table stored under an identifier on which no statement has run
\* holds the rows its load read, whatever updates, inserts and deletes
\* have run on the tables stored under other identifiers.
C15_TablesIndependent ==
    \A id \in FileNames :
      (inMemoryCSV[id] # NoCSV /\ ~Operated(id)) =>
        inMemoryCSV[id] = FileRows(id)

\* C15 witness: two tables are stored, a statement has changed the one and
\* none has run on the other
C15_Witness ==
    \E id, other \in FileNames :
      /\ id # other
      /\ Operated(id)
      /\ inMemoryCSV[id] # NoCSV
      /\ inMemoryCSV[id] # FileRows(id)
      /\ inMemoryCSV[other] # NoCSV
      /\ ~Operated(other)

AcceptorRuns == AdmitCheck \/ AdmitBlock \/ AdmitAdd \/ Spawn

\* the steps of the detached thread of connection c
WorkerRuns(c) ==
    \/ ClientRead(c)
    \/ ClientFile(c)
    \/ ClientTrim(c)
    \/ ProcessAbs(c)
    \/ ClientCatch(c)
    \/ ClientSend(c)
    \/ ClientRelease(c)
    \/ ClientNotify(c)

\* every thread that can run does run
SpecServerFair ==
    /\ InitServer
    /\ [][NextServer]_vars
    /\ WF_vars(AcceptorRuns)
    /\ \A c \in Conns : WF_vars(WorkerRuns(c))

\* C17: when the acceptor is at its wait for a slot and a worker has
\* decremented the counter below maxThr, the acceptor goes on to admit the
\* pending connection (unless the process has ended).
C17_AdmissionLive ==
    (srvPc \in {"block", "waiting"} /\ numThreads < maxThr)
      ~> (srvPc = "spawn" \/ crashed)

\* the number of locks c holds: row locks, the table's wait lock, the
\* registry lock
LocksHeld(c) ==
    Cardinality({j \in 1 .. Len(rowMutex) : rowMutex[j] = c})
      + (IF csvMutex = c THEN 1 ELSE 0)
      + (IF recentCSVMutex = c THEN 1 ELSE 0)

\* c is about to take a lock, or is blocked on the table's condition
Acquiring(c) ==
    pc[c] \in {"sel_scan", "sel_print", "upd_scan", "csv_lock", "waiting",
               "woken"}

\* C18: a worker holds at most one lock, and holds none when it goes to
\* take a lock or is blocked on the table's condition, so no workers wait
\* for locks held by one another.
C18_OneLock ==
    \A c \in Workers :
      /\ LocksHeld(c) <= 1
      /\ Acquiring(c) => LocksHeld(c) = 0

\* C18 witness: a worker holds a row's lock between two column writes
\* while another worker's scan stands at that row
C18_Witness ==
    \E c, d \in Workers :
      /\ c # d
      /\ pc[d] = "upd_write"
      /\ ~loc[d].dangling
      /\ rowMutex[loc[d].it] = d
      /\ pc[c] \in {"sel_scan", "sel_print", "upd_scan"}
      /\ ~loc[c].dangling
      /\ loc[c].it = loc[d].it

\* C19: a row line that a select * with a predicate writes holds, in the
\* predicate's column, a value for which the predicate holds.
C19_PrintedRowMatches ==
    [][\A c \in Workers :
         (/\ PrintsRow(c)
          /\ qry[c].colNames = <<"*">>
          /\ qry[c].whereColIdx # -1)
           => Satisfies(qry[c], os'[c][Len(os[c]) + 1].cells)]_vars

\* the delete of d has returned
DeleteDone(d) ==
    /\ pc[d] = "send"
    /\ qry[d].op = "delete"

\* C20: once an insert and a delete have both returned, the row the
\* insert reported, if it does not match the delete's predicate, is in
\* the table; once an update with no predicate and a delete have both
\* returned, every row the table holds has the update's values in the
\* named columns.
C20_DeleteKeepsEffects ==
    \A c, d \in Workers :
      (c # d /\ DeleteDone(d) /\ pc[c] = "send") =>
        /\ (/\ qry[c].op = "insert"
            /\ os[c] = <<CountLine(1, "inserted")>>)
             => LET new == Assigned(qry[c], [k \in 1 .. Len(ColumnNames) |-> ""])
                IN  (qry[d].whereColIdx = -1 \/ ~Satisfies(qry[d], new))
                      => \E j \in 1 .. Len(csv) : csv[j] = new
        /\ (/\ qry[c].op = "update"
            /\ qry[c].whereColIdx = -1
            /\ os[c] # <<>>
            /\ os[c][Len(os[c])].kind = "updated")
             => \A j \in 1 .. Len(csv) : csv[j] = Assigned(qry[c], csv[j])
====
